---------------------------- MODULE Spec2Model ----------------------------
(***************************************************************************)
(* The three in-memory Express services of ecommerce-platform2:            *)
(*   product-service (catalog), cart-service (carts), order-service        *)
(*   (orders).  Every route handler is synchronous, so one handler run is  *)
(*   one atomic step of the service's event loop.                          *)
(***************************************************************************)
EXTENDS Integers, Sequences, FiniteSets

VARIABLES
    products,   \* product-service: const products = [...]
    carts,      \* cart-service: const carts = {} (own properties only)
    orders,     \* order-service: const orders = []
    pending,    \* order-service: POST /orders requests received, handler not yet run
    added,      \* history: the userIds POST /cart/:userId has been called for
    resp        \* the response written by the last handler run

vars == <<products, carts, orders, pending, added, resp>>

---------------------------------------------------------------------------
(* Bounds of the model *)

MaxSegLen == 3        \* longest raw :id segment sent to the catalog
MaxPathLen == 2       \* longest raw :orderId segment sent to the order service
MaxCartSegLen == 1    \* longest raw :productId segment sent to the cart service
MaxId == 12           \* integer ids are drawn from -MaxId..MaxId
MaxLines == 2         \* cart lines held by all carts together
MaxOrders == 3        \* orders created
MaxInFlight == 2      \* POST /orders requests in flight at once
AllLines == 1         \* cart lines, when the three services run together
AllOrders == 1        \* orders, when the three services run together
AllInFlight == 1      \* requests in flight, when the three services run together

---------------------------------------------------------------------------
(* JavaScript values *)

\* A JS number that results from parseInt: an integer, or NaN.
Num(n) == [nan |-> FALSE, n |-> n]
NaN == [nan |-> TRUE, n |-> 0]

\* a === b on numbers: NaN is equal to nothing, itself included.
StrictEquals(a, b) == ~a.nan /\ ~b.nan /\ a.n = b.n

\* Characters a path segment is made of here.  A segment is a sequence of
\* one-character strings; Express hands it to the handler URL-decoded.
Alphabet == {"0", "1", "-", " ", "a", "x"}
PathAlphabet == {"1", " ", "a"}

DecDigits == <<"0", "1", "2", "3", "4", "5", "6", "7", "8", "9">>
HexLetters == <<"a", "b", "c", "d", "e", "f">>

\* The value of character c as a digit of the given radix, or -1.
DigitValue(c, radix) ==
    IF \E i \in 1..10 : DecDigits[i] = c
    THEN (CHOOSE i \in 1..10 : DecDigits[i] = c) - 1
    ELSE IF radix = 16 /\ \E i \in 1..6 : HexLetters[i] = c
         THEN (CHOOSE i \in 1..6 : HexLetters[i] = c) + 9
         ELSE -1

\* s without its first k characters
Drop(s, k) == IF k >= Len(s) THEN <<>> ELSE SubSeq(s, k + 1, Len(s))

RECURSIVE TrimStart(_)
TrimStart(s) == IF s # <<>> /\ Head(s) = " " THEN TrimStart(Tail(s)) ELSE s

\* The longest prefix of s made of digits of the radix, as a number; acc is
\* the value read so far, seen tells whether any digit was read.
RECURSIVE ParseDigits(_, _, _, _)
ParseDigits(s, radix, acc, seen) ==
    IF s # <<>> /\ DigitValue(Head(s), radix) >= 0
    THEN ParseDigits(Tail(s), radix, acc * radix + DigitValue(Head(s), radix), TRUE)
    ELSE IF seen THEN Num(acc) ELSE NaN

\* Mutant: every character that is no decimal digit is dropped before the
\* digits are read
ParseIntDigitsOnly(s) ==
    ParseDigits(SelectSeq(s, LAMBDA c : DigitValue(c, 10) >= 0), 10, 0, FALSE)

\* parseInt(s) with no radix argument (ECMAScript parseInt): leading white
\* space is skipped, one sign is read, a 0x prefix selects radix 16, the
\* longest digit prefix is the value, and no digit at all gives NaN.
ParseInt(s) ==
    LET t == TrimStart(s)
        neg == t # <<>> /\ Head(t) = "-"
        u == IF t # <<>> /\ Head(t) \in {"-", "+"} THEN Tail(t) ELSE t
        hex == Len(u) >= 2 /\ u[1] = "0" /\ u[2] \in {"x", "X"}
        r == IF hex THEN ParseDigits(Drop(u, 2), 16, 0, FALSE)
                    ELSE ParseDigits(u, 10, 0, FALSE)
    IN  IF r.nan THEN NaN ELSE IF neg THEN Num(-r.n) ELSE r

\* The decimal text of a non-negative integer, and of any integer: what a
\* client puts in the URL for an integer id (curl .../products/1).
RECURSIVE NatToStr(_)
NatToStr(n) ==
    IF n < 10 THEN <<DecDigits[n + 1]>>
    ELSE NatToStr(n \div 10) \o <<DecDigits[(n % 10) + 1]>>

IntToStr(n) == IF n < 0 THEN <<"-">> \o NatToStr(-n) ELSE NatToStr(n)

\* All non-empty segments over Alphabet of length at most k.  (An empty
\* segment does not match a /:param route.)
RECURSIVE SegsOfLen(_, _)
SegsOfLen(chars, k) ==
    IF k = 0 THEN {<<>>}
    ELSE {Append(s, c) : s \in SegsOfLen(chars, k - 1), c \in chars}

RECURSIVE SegsUpTo(_, _)
SegsUpTo(chars, k) ==
    IF k = 0 THEN {} ELSE SegsOfLen(chars, k) \cup SegsUpTo(chars, k - 1)

CatalogSegs == SegsUpTo(Alphabet, MaxSegLen)
PathSegs == SegsUpTo(PathAlphabet, MaxPathLen)
CartSegs == SegsUpTo(PathAlphabet, MaxCartSegLen)

Ids == (0 - MaxId)..MaxId

---------------------------------------------------------------------------
(* product-service *)

\* const products = [ ... ]
SeedProducts ==
    << [id |-> 1, name |-> "Product A", price |-> 10],
       [id |-> 2, name |-> "Product B", price |-> 20] >>

NoResponse == [op |-> "none", status |-> 0]

\* Mutant: the id is used as an array index, products[id]
FindProductByIndex(id) ==
    IF ~id.nan /\ id.n + 1 \in 1..Len(products) THEN id.n + 1 ELSE 0

\* Array.prototype.find with the predicate p.id === id: the index of the
\* first match, or 0 for undefined.
FindProduct(id) ==
    LET hits == {i \in 1..Len(products) : StrictEquals(Num(products[i].id), id)}
    IN  IF hits = {} THEN 0 ELSE CHOOSE i \in hits : \A j \in hits : i <= j

\* Mutant: the list is reversed in place before it is sent
GetProductsReversing ==
    /\ products' = [i \in 1..Len(products) |-> products[Len(products) + 1 - i]]
    /\ resp' = [op |-> "listAll", status |-> 200, body |-> products']
    /\ UNCHANGED <<carts, orders, pending, added>>

\* app.get('/products')
GetProducts ==
    /\ resp' = [op |-> "listAll", status |-> 200, body |-> products]
    /\ UNCHANGED <<products, carts, orders, pending, added>>

\* app.get('/products/:id')
GetProduct(seg) ==
    LET i == FindProduct(ParseInt(seg))
    IN  /\ resp' = IF i # 0
                   THEN [op |-> "getById", seg |-> seg, status |-> 200,
                         body |-> products[i]]
                   ELSE [op |-> "getById", seg |-> seg, status |-> 404,
                         body |-> [error |-> "Product not found"]]
        /\ UNCHANGED <<products, carts, orders, pending, added>>

\* getById(id) for an integer id: the client writes the id in decimal.
GetProductById(n) == GetProduct(IntToStr(n))

---------------------------------------------------------------------------
(* cart-service *)

\* Property names every object literal inherits from Object.prototype.  carts
\* is created as {}, so carts[name] is truthy for each of them although the
\* object has no such own property.
ObjectPrototypeKeys ==
    {"constructor", "__proto__", "toString", "toLocaleString", "valueOf",
     "hasOwnProperty", "isPrototypeOf", "propertyIsEnumerable",
     "__defineGetter__", "__defineSetter__", "__lookupGetter__",
     "__lookupSetter__"}

\* carts[userId]: an own property is the user's array; otherwise the
\* property is looked up on Object.prototype; otherwise it is undefined.
CartsGet(userId) ==
    IF userId \in DOMAIN carts THEN [kind |-> "array", lines |-> carts[userId]]
    ELSE IF userId \in ObjectPrototypeKeys THEN [kind |-> "inherited", lines |-> <<>>]
    ELSE [kind |-> "undefined", lines |-> <<>>]

\* Mutant: one array shared by every cart
CartsSetShared(userId, lines) == [u \in DOMAIN carts \cup {userId} |-> lines]

\* carts[userId] = lines
CartsSet(userId, lines) ==
    [u \in DOMAIN carts \cup {userId} |-> IF u = userId THEN lines ELSE carts[u]]

\* Mutant: the path parameter is compared unparsed (a string is never ===
\* a number), so every line is kept
FilterOutUnparsed(lines, id) == lines

\* lines.filter(item => item.productId !== id)
FilterOut(lines, id) ==
    SelectSeq(lines, LAMBDA item : ~StrictEquals(Num(item.productId), id))

\* What Express answers when a handler throws: 500 from its default error
\* handler.
ServerError(op, userId) ==
    [op |-> op, userId |-> userId, status |-> 500, body |-> [error |-> "TypeError"]]

\* app.post('/cart/:userId')
AddItem(userId, productId, quantity) ==
    LET cur == CartsGet(userId)
        line == [productId |-> productId, quantity |-> quantity]
    IN  /\ added' = added \cup {userId}
        /\ IF cur.kind = "inherited"
           THEN \* carts[userId].push is not a function
                /\ resp' = ServerError("addItem", userId)
                /\ UNCHANGED <<products, carts, orders, pending>>
           ELSE /\ carts' = CartsSet(userId, Append(cur.lines, line))
                /\ resp' = [op |-> "addItem", userId |-> userId, status |-> 200,
                            body |-> [message |-> "Item added",
                                      cart |-> Append(cur.lines, line)]]
                /\ UNCHANGED <<products, orders, pending>>

\* Mutant: a cart that removal leaves empty is deleted from carts
RemoveItemDeletingEmpty(userId, seg) ==
    LET cur == CartsGet(userId)
        kept == SelectSeq(cur.lines,
                          LAMBDA item : ~StrictEquals(Num(item.productId), ParseInt(seg)))
    IN  IF cur.kind = "array"
        THEN /\ carts' = IF kept = <<>>
                         THEN [u \in DOMAIN carts \ {userId} |-> carts[u]]
                         ELSE CartsSet(userId, kept)
             /\ resp' = [op |-> "removeItem", userId |-> userId, seg |-> seg,
                         status |-> 200,
                         body |-> [message |-> "Item removed", cart |-> kept]]
             /\ UNCHANGED <<products, orders, pending, added>>
        ELSE /\ resp' = [op |-> "removeItem", userId |-> userId, seg |-> seg,
                         status |-> 404, body |-> [error |-> "Cart not found"]]
             /\ UNCHANGED <<products, carts, orders, pending, added>>

\* app.delete('/cart/:userId/:productId')
RemoveItem(userId, seg) ==
    LET cur == CartsGet(userId)
        kept == FilterOut(cur.lines, ParseInt(seg))
    IN  CASE cur.kind = "array" ->
               /\ carts' = CartsSet(userId, kept)
               /\ resp' = [op |-> "removeItem", userId |-> userId, seg |-> seg,
                           status |-> 200,
                           body |-> [message |-> "Item removed", cart |-> kept]]
               /\ UNCHANGED <<products, orders, pending, added>>
          [] cur.kind = "inherited" ->
               \* carts[userId].filter is not a function
               /\ resp' = ServerError("removeItem", userId)
               /\ UNCHANGED <<products, carts, orders, pending, added>>
          [] cur.kind = "undefined" ->
               /\ resp' = [op |-> "removeItem", userId |-> userId, seg |-> seg,
                           status |-> 404, body |-> [error |-> "Cart not found"]]
               /\ UNCHANGED <<products, carts, orders, pending, added>>

\* removeItem(userId, productId) for an integer productId, written in decimal.
RemoveItemById(userId, n) == RemoveItem(userId, IntToStr(n))

\* carts[userId] || []: what GET /cart/:userId hands to res.json.  An
\* inherited member is truthy, so it is what res.json is given, and it is
\* not an array (a function serialises to no body, Object.prototype to {}).
GetCartBody(userId) ==
    LET cur == CartsGet(userId)
    IN  [isArray |-> cur.kind # "inherited", lines |-> cur.lines]

\* app.get('/cart/:userId')
GetCart(userId) ==
    /\ resp' = [op |-> "getCart", userId |-> userId, status |-> 200,
                isArray |-> GetCartBody(userId).isArray,
                body |-> GetCartBody(userId).lines]
    /\ UNCHANGED <<products, carts, orders, pending, added>>

\* Inputs of the cart requests
Users == {"123", "456", "constructor"}
ProductIds == {1, 2}
Quantities == {1, 5}
RemovableIds == ProductIds \cup {0}

\* The lines in u's cart (none when u has no cart), and in all carts together
LinesOf(u) == IF u \in DOMAIN carts THEN carts[u] ELSE <<>>

RECURSIVE SumLen(_)
SumLen(us) ==
    IF us = {} THEN 0
    ELSE LET u == CHOOSE v \in us : TRUE IN Len(carts[u]) + SumLen(us \ {u})

TotalLines == SumLen(DOMAIN carts)

---------------------------------------------------------------------------
(* order-service *)

\* Mutant: orders.length || 1
NextOrderIdOrOne == IF Len(orders) = 0 THEN 1 ELSE Len(orders)

\* Mutant: orders.length, ids counted from 0
NextOrderIdZeroBased == Len(orders)

\* orders.length + 1
NextOrderId == Len(orders) + 1

\* Mutant: the id is used as an array index, orders[id]
FindOrderByIndex(id) ==
    IF ~id.nan /\ id.n + 1 \in 1..Len(orders) THEN id.n + 1 ELSE 0

\* orders.find(o => o.orderId === id): index of the first match, 0 for undefined
FindOrder(id) ==
    LET hits == {i \in 1..Len(orders) : StrictEquals(Num(orders[i].orderId), id)}
    IN  IF hits = {} THEN 0 ELSE CHOOSE i \in hits : \A j \in hits : i <= j

\* s without its i-th element
RemoveAt(s, i) == SubSeq(s, 1, i - 1) \o SubSeq(s, i + 1, Len(s))

\* A POST /orders request arrives; express.json() reads its body.  The route
\* handler runs later, once the body is complete, so several requests can
\* be in this stage together.
ReceiveCreateOrder(body) ==
    /\ pending' = Append(pending, body)
    /\ UNCHANGED <<products, carts, orders, resp, added>>

\* Mutant: the items of the request body are not stored
CreateOrderNoItems(i) ==
    LET req == pending[i]
        orderId == Len(orders) + 1
    IN  /\ orders' = Append(orders, [orderId |-> orderId, userId |-> req.userId,
                                     items |-> <<>>, status |-> "pending"])
        /\ pending' = RemoveAt(pending, i)
        /\ resp' = [op |-> "createOrder", req |-> req, status |-> 200,
                    body |-> [message |-> "Order created", orderId |-> orderId]]
        /\ UNCHANGED <<products, carts, added>>

\* app.post('/orders'), run for the i-th request in flight (bodies complete
\* in any order).  The handler is synchronous: the read of orders.length and
\* the push are one step.
CreateOrder(i) ==
    LET req == pending[i]
        orderId == NextOrderId
    IN  /\ orders' = Append(orders, [orderId |-> orderId, userId |-> req.userId,
                                     items |-> req.items, status |-> "pending"])
        /\ pending' = RemoveAt(pending, i)
        /\ resp' = [op |-> "createOrder", req |-> req, status |-> 200,
                    body |-> [message |-> "Order created", orderId |-> orderId]]
        /\ UNCHANGED <<products, carts, added>>

\* app.get('/orders/:orderId')
GetOrder(seg) ==
    LET i == FindOrder(ParseInt(seg))
    IN  /\ resp' = IF i # 0
                   THEN [op |-> "getOrder", seg |-> seg, status |-> 200,
                         body |-> orders[i]]
                   ELSE [op |-> "getOrder", seg |-> seg, status |-> 404,
                         body |-> [error |-> "Order not found"]]
        /\ UNCHANGED <<products, carts, orders, pending, added>>

\* getOrder(orderId) for an integer id, written in decimal.
GetOrderById(n) == GetOrder(IntToStr(n))

\* Request bodies of POST /orders (the two of the README's curl calls)
OrderBodies ==
    { [userId |-> "1", items |-> <<>>],
      [userId |-> "999", items |-> <<[productId |-> 1, quantity |-> 5]>>] }

---------------------------------------------------------------------------
(* The gateway: ecommerce-ingress (ingress-nginx) in front of the services *)

\* A request path is the sequence of its elements, each a sequence of
\* characters: /products/1 is <<ProductsLit, <<"1">>>>, and / is <<>>.
ProductsLit == <<"p", "r", "o", "d", "u", "c", "t", "s">>
CartLit == <<"c", "a", "r", "t">>
OrdersLit == <<"o", "r", "d", "e", "r", "s">>

\* The string a path element is handed to a handler as (req.params.userId)
RECURSIVE StringOf(_)
StringOf(s) == IF s = <<>> THEN "" ELSE Head(s) \o StringOf(Tail(s))

\* spec.rules[0].http.paths of ingress.yaml: path, pathType Prefix, backend
IngressRules ==
    << [path |-> <<ProductsLit>>, backend |-> "product-service"],
       [path |-> <<CartLit>>, backend |-> "cart-service"],
       [path |-> <<OrdersLit>>, backend |-> "order-service"] >>

\* pathType Prefix: the rule's path elements are the first elements of p
IsPrefix(q, p) == Len(q) <= Len(p) /\ SubSeq(p, 1, Len(q)) = q

\* The backend of the rule that matches p, "none" when no rule does
IngressBackend(p) ==
    LET hits == {i \in 1..Len(IngressRules) : IsPrefix(IngressRules[i].path, p)}
    IN  IF hits = {} THEN "none"
        ELSE IngressRules[CHOOSE i \in hits : \A j \in hits : i <= j].backend

\* nginx.ingress.kubernetes.io/rewrite-target: /  (the root path)
RewriteTarget == <<>>

\* The path sent upstream.  With a rewrite target the controller emits
\* rewrite "(?i)<rule path>" <target> break; the rule paths have no capture
\* group, so the whole request URI is replaced by the target.
Rewrite(p) == RewriteTarget

\* Express when no route matches: 404 "Cannot <METHOD> <path>"
NotRouted(method, p) ==
    /\ resp' = [op |-> "notRouted", method |-> method, path |-> p,
                status |-> 404, body |-> [error |-> "Cannot " \o method]]
    /\ UNCHANGED <<products, carts, orders, pending, added>>

\* The routes of a service's Express app, applied to (method, path).
Dispatch(service, method, p, body) ==
    CASE service = "product-service" /\ method = "GET" /\ p = <<ProductsLit>> ->
             GetProducts
      [] service = "product-service" /\ method = "GET"
           /\ Len(p) = 2 /\ p[1] = ProductsLit ->
             GetProduct(p[2])
      [] service = "cart-service" /\ method = "POST"
           /\ Len(p) = 2 /\ p[1] = CartLit ->
             AddItem(StringOf(p[2]), body.productId, body.quantity)
      [] service = "cart-service" /\ method = "DELETE"
           /\ Len(p) = 3 /\ p[1] = CartLit ->
             RemoveItem(StringOf(p[2]), p[3])
      [] service = "cart-service" /\ method = "GET"
           /\ Len(p) = 2 /\ p[1] = CartLit ->
             GetCart(StringOf(p[2]))
      [] service = "order-service" /\ method = "POST" /\ p = <<OrdersLit>> ->
             ReceiveCreateOrder(body)
      [] service = "order-service" /\ method = "GET"
           /\ Len(p) = 2 /\ p[1] = OrdersLit ->
             GetOrder(p[2])
      [] OTHER -> NotRouted(method, p)

\* A request sent to the service that owns the path (kubectl port-forward
\* svc/<service>, then curl)
DirectRequest(method, p, body) ==
    /\ IngressBackend(p) # "none"
    /\ Dispatch(IngressBackend(p), method, p, body)

\* A request sent to the ingress: the matching rule picks the backend, the
\* path is rewritten, and the backend's app routes what it receives.  With
\* no matching rule the controller's default backend answers 404.
GatewayRequest(method, p, body) ==
    IF IngressBackend(p) = "none"
    THEN /\ resp' = [op |-> "ingressNotFound", method |-> method, path |-> p,
                     status |-> 404, body |-> [error |-> "404 Not Found"]]
         /\ UNCHANGED <<products, carts, orders, pending, added>>
    ELSE Dispatch(IngressBackend(p), method, Rewrite(p), body)

\* Requests of the gateway runs
UserSegs ==
    { <<"1", "2", "3">>, <<"4", "5", "6">>,
      <<"c", "o", "n", "s", "t", "r", "u", "c", "t", "o", "r">> }
IdSegs == {IntToStr(n) : n \in RemovableIds}
GetPaths ==
    {<<ProductsLit>>} \cup {<<ProductsLit, s>> : s \in IdSegs}
        \cup {<<CartLit, u>> : u \in UserSegs}
        \cup {<<OrdersLit, s>> : s \in IdSegs}
DeletePaths == {<<CartLit, u, s>> : u \in UserSegs, s \in IdSegs}
CartPostPaths == {<<CartLit, u>> : u \in UserSegs}
CartBodies == {[productId |-> p, quantity |-> q] : p \in ProductIds, q \in Quantities}
NoBody == <<>>

---------------------------------------------------------------------------

Init ==
    /\ products = SeedProducts
    /\ carts = <<>>
    /\ orders = <<>>
    /\ pending = <<>>
    /\ added = {}
    /\ resp = NoResponse

NextCatalog ==
    \/ GetProducts
    \/ \E seg \in CatalogSegs : GetProduct(seg)
    \/ \E n \in Ids : GetProductById(n)

SpecCatalog == Init /\ [][NextCatalog]_vars

NextCart ==
    \/ \E u \in Users, p \in ProductIds, q \in Quantities :
           TotalLines < MaxLines /\ AddItem(u, p, q)
    \/ \E u \in Users, seg \in CartSegs : RemoveItem(u, seg)
    \/ \E u \in Users, n \in RemovableIds : RemoveItemById(u, n)
    \/ \E u \in Users : GetCart(u)

SpecCart == Init /\ [][NextCart]_vars

NextOrder ==
    \/ \E b \in OrderBodies :
           /\ Len(orders) + Len(pending) < MaxOrders
           /\ Len(pending) < MaxInFlight
           /\ ReceiveCreateOrder(b)
    \/ \E i \in 1..Len(pending) : CreateOrder(i)
    \/ \E seg \in PathSegs : GetOrder(seg)
    \/ \E n \in (0 - 1)..(MaxOrders + 1) : GetOrderById(n)

SpecOrder == Init /\ [][NextOrder]_vars

\* The three services side by side, each on its own event loop.
Next ==
    \/ GetProducts
    \/ \E n \in ProductIds \cup {0} : GetProductById(n)
    \/ \E u \in Users, p \in ProductIds, q \in Quantities :
           TotalLines < AllLines /\ AddItem(u, p, q)
    \/ \E u \in Users, n \in ProductIds : RemoveItemById(u, n)
    \/ \E u \in Users : GetCart(u)
    \/ \E b \in OrderBodies :
           /\ Len(orders) + Len(pending) < AllOrders
           /\ Len(pending) < AllInFlight
           /\ ReceiveCreateOrder(b)
    \/ \E i \in 1..Len(pending) : CreateOrder(i)
    \/ \E n \in 0..(AllOrders + 1) : GetOrderById(n)

Spec == Init /\ [][Next]_vars

\* The two lookups by id, product-service and order-service side by side.
NextLookup ==
    \/ \E b \in OrderBodies :
           /\ Len(orders) + Len(pending) < MaxOrders
           /\ Len(pending) < MaxInFlight
           /\ ReceiveCreateOrder(b)
    \/ \E i \in 1..Len(pending) : CreateOrder(i)
    \/ \E seg \in PathSegs : GetOrder(seg)
    \/ \E seg \in PathSegs : GetProduct(seg)

SpecLookup == Init /\ [][NextLookup]_vars

\* The services reached directly and through the ingress.
NextGateway ==
    \/ \E p \in GetPaths \cup {<<>>} : GatewayRequest("GET", p, NoBody)
    \/ \E p \in DeletePaths : GatewayRequest("DELETE", p, NoBody)
    \/ \E p \in CartPostPaths, b \in CartBodies :
           TotalLines < AllLines /\ GatewayRequest("POST", p, b)
    \/ \E b \in OrderBodies :
           /\ Len(orders) + Len(pending) < AllOrders
           /\ Len(pending) < AllInFlight
           /\ GatewayRequest("POST", <<OrdersLit>>, b)
    \/ \E p \in GetPaths : DirectRequest("GET", p, NoBody)
    \/ \E p \in DeletePaths : DirectRequest("DELETE", p, NoBody)
    \/ \E p \in CartPostPaths, b \in CartBodies :
           TotalLines < AllLines /\ DirectRequest("POST", p, b)
    \/ \E b \in OrderBodies :
           /\ Len(orders) + Len(pending) < AllOrders
           /\ Len(pending) < AllInFlight
           /\ DirectRequest("POST", <<OrdersLit>>, b)
    \/ \E i \in 1..Len(pending) : CreateOrder(i)

SpecGateway == Init /\ [][NextGateway]_vars

---------------------------------------------------------------------------
(* Properties of the order service, checked under SpecOrder *)

\* C1: with several POST /orders requests in flight and their handlers run
\* in any order, no two orders of the order list have the same orderId.
C1_DistinctOrderIds ==
    \A i, j \in 1..Len(orders) :
        i # j => orders[i].orderId # orders[j].orderId

\* A handler has just created an order while another request was still in
\* flight, and at least two orders exist.
C1_Witness ==
    /\ resp.op = "createOrder"
    /\ Len(orders) >= 2
    /\ Len(pending) >= 1

\* C2: the k-th createOrder returns orderId k, and the order at position i of
\* the order list has orderId i, so the ids are 1..number of orders.
C2_SequentialOrderIds ==
    /\ \A i \in 1..Len(orders) : orders[i].orderId = i
    /\ resp.op = "createOrder" => resp.body.orderId = Len(orders)

\* The third createOrder has returned 3.
C2_Witness ==
    /\ resp.op = "createOrder"
    /\ Len(orders) = 3
    /\ resp.body.orderId = 3

\* The order record createOrder is specified to store for a request that
\* was answered with id k.
OrderRecord(k, req) ==
    [orderId |-> k, userId |-> req.userId, items |-> req.items, status |-> "pending"]

C3_Created ==
    resp.op = "createOrder" =>
        /\ resp.body.orderId \in 1..Len(orders)
        /\ orders[resp.body.orderId] = OrderRecord(resp.body.orderId, resp.req)

C3_Lookup ==
    \A k \in 1..Len(orders) :
        (resp.op = "getOrder" /\ resp.seg = IntToStr(k)) =>
            /\ resp.status = 200
            /\ resp.body = orders[k]
            /\ resp.body.orderId = k
            /\ resp.body.status = "pending"

C3_Immutable ==
    /\ Len(orders') >= Len(orders)
    /\ \A i \in 1..Len(orders) : orders'[i] = orders[i]

\* C3: createOrder(u, p) that returned k stored {orderId: k, userId: u,
\* items: p, status: "pending"}; no step changes or removes an order once
\* stored; and getOrder(k) returns the stored order k.
C3_RoundTrip == [](C3_Created /\ C3_Lookup) /\ [][C3_Immutable]_vars

\* getOrder(1) returns the first order, with its items, after two more
\* orders were created.
C3_Witness ==
    /\ resp.op = "getOrder"
    /\ resp.seg = <<"1">>
    /\ resp.status = 200
    /\ Len(orders) = 3
    /\ resp.body.userId = "999"
    /\ resp.body.items = <<[productId |-> 1, quantity |-> 5]>>

---------------------------------------------------------------------------
(* Properties of the cart service, checked under SpecCart *)

\* C4: for every userId, each addItem(userId, productId, quantity) makes
\* getCart(userId) return what it returned before followed by the one new
\* line (productId, quantity); so a run of addItem calls is returned line for
\* line, in call order, repeated productIds included.
C4_AddThenGet ==
    [][\A u \in Users, p \in ProductIds, q \in Quantities :
          AddItem(u, p, q) =>
              GetCartBody(u)' =
                  [isArray |-> TRUE,
                   lines |-> Append(GetCartBody(u).lines,
                                    [productId |-> p, quantity |-> q])]]_vars

\* C5 (result): after removeItem(u, n) on an existing cart no line of the
\* cart has productId n, and the cart returned is the one getCart returns.
C5_NoMatchLeft ==
    \A n \in RemovableIds :
        (resp.op = "removeItem" /\ resp.status = 200 /\ resp.seg = IntToStr(n)) =>
            /\ \A i \in 1..Len(carts[resp.userId]) :
                   carts[resp.userId][i].productId # n
            /\ resp.body.cart = carts[resp.userId]
            /\ GetCartBody(resp.userId) =
                   [isArray |-> TRUE, lines |-> resp.body.cart]

\* C5 (step): removeItem(u, n) keeps the lines whose productId is not n, each
\* once and in their order.
C5_KeepsOthers ==
    \A u \in DOMAIN carts, n \in RemovableIds :
        RemoveItemById(u, n) =>
            carts'[u] = SelectSeq(carts[u], LAMBDA l : l.productId # n)

\* C5: removeItem on an existing cart removes every line with the requested
\* productId, keeps every other line once and in order, and returns the cart
\* that getCart then returns.
C5_RemoveMatching == []C5_NoMatchLeft /\ [][C5_KeepsOthers]_vars

\* removeItem(u, 1) answered with a cart that still holds a line of product 2
C5_Witness ==
    /\ resp.op = "removeItem"
    /\ resp.status = 200
    /\ resp.seg = <<"1">>
    /\ resp.body.cart # <<>>
    /\ resp.body.cart[1].productId = 2

\* C6: removeItem for a userId that addItem was never called for answers
\* 404 "Cart not found", and no cart exists for that user afterwards.
C6_RemoveUnknownNotFound ==
    (resp.op = "removeItem" /\ resp.userId \notin added) =>
        /\ resp.status = 404
        /\ resp.body.error = "Cart not found"
        /\ resp.userId \notin DOMAIN carts

\* C7: getCart answers 200 with an array for every userId: the user's cart
\* if addItem created one, the empty sequence otherwise.
C7_GetCartNeverFails ==
    resp.op = "getCart" =>
        /\ resp.status = 200
        /\ resp.isArray
        /\ resp.body = LinesOf(resp.userId)

C8_RemoveSucceeds ==
    (resp.op = "removeItem" /\ resp.userId \in DOMAIN carts) =>
        /\ resp.status = 200
        /\ resp.body.cart = carts[resp.userId]

C8_Kept ==
    /\ DOMAIN carts \subseteq DOMAIN carts'
    /\ \A u \in DOMAIN carts, seg \in CartSegs :
           (carts[u] = <<>> /\ RemoveItem(u, seg)) =>
               /\ resp'.status = 200
               /\ resp'.body.cart = <<>>
    /\ \A u \in DOMAIN carts, p \in ProductIds, q \in Quantities :
           AddItem(u, p, q) =>
               carts'[u] = Append(carts[u], [productId |-> p, quantity |-> q])

\* C8: a cart, once created, stays in carts; removeItem on an emptied cart
\* answers 200 with the empty sequence, and addItem appends to the same cart.
C8_CartNeverDeleted == []C8_RemoveSucceeds /\ [][C8_Kept]_vars

\* removeItem has answered 200 with an empty cart that still exists
C8_Witness ==
    /\ resp.op = "removeItem"
    /\ resp.status = 200
    /\ resp.userId \in DOMAIN carts
    /\ carts[resp.userId] = <<>>
    /\ resp.body.cart = <<>>

---------------------------------------------------------------------------
(* Properties of the catalog *)

\* C9 (SpecCatalog): getById(n) for an integer n answers 200 with the seeded
\* record when n is 1 or 2, and 404 "Product not found" for every other
\* integer, 0 and the negative ones included.
C9_GetById ==
    \A n \in Ids :
        (resp.op = "getById" /\ resp.seg = IntToStr(n)) =>
            CASE n = 1 -> /\ resp.status = 200
                          /\ resp.body = [id |-> 1, name |-> "Product A", price |-> 10]
              [] n = 2 -> /\ resp.status = 200
                          /\ resp.body = [id |-> 2, name |-> "Product B", price |-> 20]
              [] OTHER -> /\ resp.status = 404
                          /\ resp.body.error = "Product not found"

\* getById(2) has answered with Product B
C9_Witness ==
    /\ resp.op = "getById"
    /\ resp.seg = <<"2">>
    /\ resp.status = 200
    /\ resp.body.name = "Product B"

\* C10 (Spec): whatever catalog, cart and order requests have been handled,
\* the catalog is the two seeded records in seed order, and that is what
\* listAll returns.
C10_CatalogFixed ==
    /\ products = << [id |-> 1, name |-> "Product A", price |-> 10],
                     [id |-> 2, name |-> "Product B", price |-> 20] >>
    /\ resp.op = "listAll" => resp.body = products

\* listAll has answered after a cart line was added and an order created
C10_Witness ==
    /\ resp.op = "listAll"
    /\ resp.status = 200
    /\ DOMAIN carts # {}
    /\ Len(orders) >= 1

---------------------------------------------------------------------------
(* Properties of the gateway, checked under SpecGateway *)

\* C11: the gateway delivers every /products, /cart and /orders request to
\* its service with the path unchanged, so a request answered through the
\* gateway is answered, and acts on the stores, exactly as the same request
\* sent to the service directly.
C11_GatewayTransparent ==
    [][ /\ \A p \in GetPaths :
              GatewayRequest("GET", p, NoBody) => DirectRequest("GET", p, NoBody)
        /\ \A p \in DeletePaths :
              GatewayRequest("DELETE", p, NoBody) => DirectRequest("DELETE", p, NoBody)
        /\ \A p \in CartPostPaths, b \in CartBodies :
              GatewayRequest("POST", p, b) => DirectRequest("POST", p, b)
        /\ \A b \in OrderBodies :
              GatewayRequest("POST", <<OrdersLit>>, b)
                  => DirectRequest("POST", <<OrdersLit>>, b) ]_vars

---------------------------------------------------------------------------
(* Lookups by id *)

OrderIds == (0 - 1)..(MaxOrders + 1)

C12_Lookup ==
    \A n \in OrderIds :
        (resp.op = "getOrder" /\ resp.seg = IntToStr(n)) =>
            IF n \in 1..Len(orders)
            THEN /\ resp.status = 200
                 /\ resp.body.orderId = n
            ELSE /\ resp.status = 404
                 /\ resp.body.error = "Order not found"

C12_ReadOnly ==
    \A n \in OrderIds : GetOrderById(n) => orders' = orders

\* C12 (SpecOrder): getOrder(n) for an integer n returns the order with id n
\* exactly when 1 <= n <= number of orders created, answers 404 "Order not
\* found" for every other integer, and leaves the order list as it was.
C12_GetOrder == []C12_Lookup /\ [][C12_ReadOnly]_vars

\* getOrder(2) answered 404 while only order 1 existed
C12_Witness ==
    /\ resp.op = "getOrder"
    /\ resp.seg = <<"2">>
    /\ resp.status = 404
    /\ Len(orders) = 1

\* The segment is the decimal text of an integer: digits only, after an
\* optional minus sign.
IsNumericInteger(seg) ==
    LET d == IF seg # <<>> /\ Head(seg) = "-" THEN Tail(seg) ELSE seg
    IN  d # <<>> /\ \A i \in 1..Len(d) : \E k \in 1..10 : DecDigits[k] = d[i]

\* The segment starts with a decimal digit, after optional leading white
\* space and one optional sign.
StartsWithDigit(seg) ==
    LET t == TrimStart(seg)
        u == IF t # <<>> /\ Head(t) \in {"-", "+"} THEN Tail(t) ELSE t
    IN  u # <<>> /\ \E k \in 1..10 : DecDigits[k] = Head(u)

IsLookup == resp.op \in {"getById", "getOrder"}

LookupNotFound ==
    /\ resp.status = 404
    /\ resp.body.error =
           IF resp.op = "getById" THEN "Product not found" ELSE "Order not found"

---------------------------------------------------------------------------
(* Cart isolation, checked under SpecCart *)

\* C14: a step that handles addItem, removeItem or getCart for user u (the
\* request resp' answers) leaves the cart of every other user as it was:
\* same existence, same lines, same order.
C14_CartIsolation ==
    [][resp'.op \in {"addItem", "removeItem", "getCart"} =>
          \A v \in Users \ {resp'.userId} : CartsGet(v)' = CartsGet(v)]_vars

\* removeItem(123, 1) has emptied the cart of 123 while the cart of 456
\* still holds its line of product 1
C14_Witness ==
    /\ resp.op = "removeItem"
    /\ resp.userId = "123"
    /\ resp.seg = <<"1">>
    /\ resp.status = 200
    /\ resp.body.cart = <<>>
    /\ "456" \in DOMAIN carts
    /\ Len(carts["456"]) = 1
    /\ carts["456"][1].productId = 1

=============================================================================
